---- MODULE Spec2Model ----
(***************************************************************************)
(* Model of src/api/generate.js: the POST /api/generate handler            *)
(* (generateHandler), its in-memory usage counter and the parsing of the   *)
(* provider's result.                                                      *)
(*                                                                         *)
(* Node.js runs a handler without interleaving until it reaches an await.  *)
(* generateHandler has exactly one await (the provider call), so a request *)
(* takes two steps: Receive (lines 21-150, up to the await) and then       *)
(* ProviderResolve (lines 152-187) or ProviderReject (lines 188-200).      *)
(* Strings that the code inspects character by character (the reply) are   *)
(* sequences of one-character strings; " " is the whitespace character.    *)
(* The strings the code concatenates (clientId, the day, the usage key,    *)
(* clipboardText) are sequences of pieces: a literal of the source is one  *)
(* piece, text that varies is one piece per character.  Strings it only    *)
(* compares or copies (licenseKey, tone, scenario) are whole strings.      *)
(***************************************************************************)
EXTENDS Integers, Sequences, FiniteSets, TLC

VARIABLES usageCounter, clock, req, nReq, received, admitted, receivedOn,
          admittedOn, allFailed, probe

vars == <<usageCounter, clock, req, nReq, received, admitted, receivedOn,
          admittedOn, allFailed, probe>>

----------------------------------------------------------------------------
(* Bounds of the model *)

\* requests received in a run of Spec (handled concurrently)
MaxConcurrentRequests == 6
\* requests received in a run of SeqSpec (handled one after another)
MaxRequests == 7
\* calendar days the clock passes through
MaxDay == 2
\* requests received in a run of ProSpec
MaxProRequests == 1001
\* segments of a provider result, and content parts of a segment (ExtractSpec)
MaxSegments == 2
MaxParts == 2
\* requests of a run of ComposeSpec
MaxComposeRequests == 2
\* requests of a run of OverlapSpec
MaxOverlapRequests == 3

----------------------------------------------------------------------------
(* Request bodies *)

\* a field missing from the body (undefined): as a whole string, and as a
\* character sequence
Absent == "<absent>"
AbsentText == <<"<absent>">>

PRO_KEY == "GOOD_SELLER_2025"

\* the request slots: at most this many requests are in flight at once
Requests == {"r1", "r2"}

LicenseKeys == {PRO_KEY, "", Absent}

CLIENT_C1 == <<"c", "1">>
ANON == <<"a", "n", "o", "n">>

ClientIds == {CLIENT_C1, ANON, AbsentText}

\* the bodies of Spec, SeqSpec, FreeSpec, FreeSeqSpec: tone, scenario and
\* clipboardText are left out (the README's documented minimum is licenseKey
\* and clientId; the code defaults the rest)
Bodies == [licenseKey : LicenseKeys, clientId : ClientIds, tone : {Absent},
           scenario : {Absent}, clipboardText : {AbsentText}]

\* the bodies of ComposeSpec: every tone and scenario of the interface, an
\* unrecognized one of each, the empty string (as a tone) and none; a text with
\* whitespace around it, a blank text and none
ToneInputs == {"friendly", "business", "principle", "angry", "", Absent}

ScenarioInputs == {"general", "claim", "review", "rant", Absent}

TextInputs == {<<" ", "h", "i", " ">>, <<" ">>, AbsentText}

ComposeBodies == [licenseKey : {""}, clientId : {CLIENT_C1}, tone : ToneInputs,
                  scenario : ScenarioInputs, clipboardText : TextInputs]

\* JavaScript truthiness of a (possibly absent) string
Falsy(s) == s = Absent \/ s = ""

FalsyText(s) == s = AbsentText \/ s = <<>>

\* v || dflt
OrDefault(v, dflt) == IF Falsy(v) THEN dflt ELSE v

----------------------------------------------------------------------------
(* The usage counter: a Map, modelled as a function whose domain is the    *)
(* set of keys that have an entry                                          *)

\* new Date().toISOString().split('T')[0] on day d of the run: YYYY-MM-DD,
\* the day always in two digits
Digits == <<"0", "1", "2", "3", "4", "5", "6", "7", "8", "9">>

DayStr(d) == <<"2025-01-", Digits[(d \div 10) + 1], Digits[(d % 10) + 1]>>

todayStr == DayStr(clock)

\* clientId || 'anon'
ClientOf(clientId) == IF FalsyText(clientId) THEN ANON ELSE clientId

\* mutants of UsageKey: the day is left out; the client is left out
UsageKeyNoDay(clientId, day) == <<"usage:">> \o ClientOf(clientId)

UsageKeyNoClient(clientId, day) == <<"usage:">> \o <<":">> \o day

\* `usage:${clientId || 'anon'}:${todayStr()}`
UsageKey(clientId, day) ==
    <<"usage:">> \o ClientOf(clientId) \o <<":">> \o day

AllKeys == {UsageKey(c, DayStr(d)) : c \in ClientIds, d \in 1..MaxDay}

\* the (client, day) pairs of the run
AllPairs == {<<ClientOf(c), DayStr(d)>> : c \in ClientIds, d \in 1..MaxDay}

\* usageCounter.get(key) || dflt
GetOr(counter, key, dflt) ==
    IF key \in DOMAIN counter /\ counter[key] # 0 THEN counter[key] ELSE dflt

\* usageCounter.set(key, v)
MapSet(counter, key, v) ==
    [k \in DOMAIN counter \cup {key} |-> IF k = key THEN v ELSE counter[k]]

FREE_LIMIT == 5
PRO_LIMIT == 999

IsProKey(licenseKey) == licenseKey = PRO_KEY

LimitOf(isPro) == IF isPro THEN PRO_LIMIT ELSE FREE_LIMIT

\* mutants of OverLimit: an off-by-one comparison; the pro exemption lost
OverLimitOffByOne(isPro, used, limit) == ~isPro /\ used > limit

OverLimitIgnoresPro(isPro, used, limit) == used >= limit

OverLimit(isPro, used, limit) == ~isPro /\ used >= limit

----------------------------------------------------------------------------
(* The provider's result and the parsing of it (lines 152-166)             *)
(*                                                                         *)
(* ai     = [isArray, output]  : ai.output, an array of items or not       *)
(* item   = [hasContent, content] : item.content, truthy or not (a null    *)
(*          item and an item without content both skip at line 157)        *)
(* part   = [isNull, type, isString, text] : a content part c; reading     *)
(*          c.type of a null part throws a TypeError                        *)

\* c.type === 'output_text' && typeof c.text === 'string'
IsOutputText(c) == c.type = "output_text" /\ c.isString

\* the inner loop, lines 158-162: acc is replyText so far; the result is
\* [threw, text]
RECURSIVE CollectParts(_, _)
CollectParts(content, acc) ==
    IF content = <<>> THEN [threw |-> FALSE, text |-> acc]
    ELSE LET c == Head(content) IN
         IF c.isNull THEN [threw |-> TRUE, text |-> acc]
         ELSE CollectParts(Tail(content),
                           IF IsOutputText(c) THEN acc \o c.text ELSE acc)

\* if (!item?.content) continue;
SkipsItem(item) == ~item.hasContent

\* mutant of CollectItems: only the first item is read
CollectFirstItemOnly(output, acc) ==
    IF output = <<>> \/ SkipsItem(Head(output))
    THEN [threw |-> FALSE, text |-> acc]
    ELSE CollectParts(Head(output).content, acc)

\* the outer loop, lines 156-163
RECURSIVE CollectItems(_, _)
CollectItems(output, acc) ==
    IF output = <<>> THEN [threw |-> FALSE, text |-> acc]
    ELSE LET item == Head(output) IN
         IF SkipsItem(item) THEN CollectItems(Tail(output), acc)
         ELSE LET got == CollectParts(item.content, acc) IN
              IF got.threw THEN got ELSE CollectItems(Tail(output), got.text)

IsSpace(ch) == ch = " "

\* String.prototype.trim
RECURSIVE TrimStart(_)
TrimStart(s) ==
    IF s # <<>> /\ IsSpace(Head(s)) THEN TrimStart(Tail(s)) ELSE s

RECURSIVE TrimEnd(_)
TrimEnd(s) ==
    IF s # <<>> /\ IsSpace(s[Len(s)]) THEN TrimEnd(SubSeq(s, 1, Len(s) - 1))
    ELSE s

\* mutant of Trim: trailing whitespace kept
TrimStartOnly(s) == TrimStart(s)

Trim(s) == TrimEnd(TrimStart(s))

\* lines 153-166: replyText after the loops and the trim, or a throw
ParseOutput(ai) ==
    LET got == IF ai.isArray THEN CollectItems(ai.output, <<>>)
               ELSE [threw |-> FALSE, text |-> <<>>]
    IN [threw |-> got.threw, text |-> Trim(got.text)]

\* provider results
Part(type, text) == [isNull |-> FALSE, type |-> type, isString |-> TRUE, text |-> text]
PartNoText(type) == [isNull |-> FALSE, type |-> type, isString |-> FALSE, text |-> <<>>]
NullPart == [isNull |-> TRUE, type |-> "", isString |-> FALSE, text |-> <<>>]
Item(content) == [hasContent |-> TRUE, content |-> content]
ItemNoContent == [hasContent |-> FALSE, content |-> <<>>]
Result(output) == [isArray |-> TRUE, output |-> output]
ResultNoOutput == [isArray |-> FALSE, output |-> <<>>]

SeqsUpTo(S, n) == UNION {[1..k -> S] : k \in 0..n}

\* well-formed content parts: every part is an object with a type
Parts == {Part("output_text", <<"a">>), Part("output_text", <<" ", "b">>),
          Part("reasoning", <<"c">>), PartNoText("output_text")}

Items == {ItemNoContent} \cup {Item(c) : c \in SeqsUpTo(Parts, MaxParts)}

\* every well-formed result within the bounds
WellFormedResults ==
    {ResultNoOutput} \cup {Result(o) : o \in SeqsUpTo(Items, MaxSegments)}

\* the results the provider returns in Spec, SeqSpec and ProSpec: a reply
\* that needs trimming, only whitespace, and a malformed result with a null
\* content part
SampleResults ==
    { Result(<<Item(<<Part("output_text", <<" ", "a", " ">>)>>)>>),
      Result(<<Item(<<Part("output_text", <<" ">>)>>)>>),
      Result(<<Item(<<Part("output_text", <<"a">>), NullPart>>)>>) }

NoResult == ResultNoOutput

----------------------------------------------------------------------------
(* Responses: res.status(...).json({...})                                  *)

MSG_QUOTA == "free quota exceeded"
MSG_RETRY == "generation failed, retry"
MSG_DONE == "done"
MSG_DONE_PRO == "done (pro)"
MSG_ERROR == "server error"

HTTP_OK == 200

Response(status, ok, reply, todayUsage, todayLimit, isPro, message) ==
    [status |-> status, ok |-> ok, reply |-> reply, todayUsage |-> todayUsage,
     todayLimit |-> todayLimit, isPro |-> isPro, message |-> message]

\* mutant of RejectedResponse: the usage reported is the limit
RejectedResponseUsageIsLimit(used, limit, isPro) ==
    Response(HTTP_OK, FALSE, <<>>, limit, limit, isPro, MSG_QUOTA)

\* lines 36-43
RejectedResponse(used, limit, isPro) ==
    Response(HTTP_OK, FALSE, <<>>, used, limit, isPro, MSG_QUOTA)

\* todayUsage: usageCounter.get(key) || used + 1  (lines 172 and 183)
ReportedUsage(counter, key, used) == GetOr(counter, key, used + 1)

\* lines 169-176
EmptyResponse(counter, key, used, limit, isPro) ==
    Response(HTTP_OK, FALSE, <<>>, ReportedUsage(counter, key, used), limit,
             isPro, MSG_RETRY)

\* lines 180-187
SuccessResponse(replyText, counter, key, used, limit, isPro) ==
    Response(HTTP_OK, TRUE, replyText, ReportedUsage(counter, key, used), limit,
             isPro, IF isPro THEN MSG_DONE_PRO ELSE MSG_DONE)

\* mutants of FallbackResponse: an error status; the limit zeroed as well
FallbackResponseStatus500 ==
    Response(500, FALSE, <<>>, 0, 5, FALSE, MSG_ERROR)

FallbackResponseLimitZero ==
    Response(HTTP_OK, FALSE, <<>>, 0, 0, FALSE, MSG_ERROR)

\* lines 192-199
FallbackResponse ==
    Response(HTTP_OK, FALSE, <<>>, 0, 5, FALSE, MSG_ERROR)

NoResponse == Response(0, FALSE, <<>>, 0, 0, FALSE, "")

----------------------------------------------------------------------------
(* Prompt composition, lines 24-26 and 49-150.  The system prompt is the   *)
(* template of lines 50-122, line by line (headings and rules, rendered in *)
(* English); the user prompt is the template of lines 125-135, section by  *)
(* section, each with the value interpolated into it.                      *)

\* tone || 'friendly', line 24
ToneValue(tone) == OrDefault(tone, "friendly")

\* scenario || 'general', line 25
ScenarioValue(scenario) == OrDefault(scenario, "general")

\* (clipboardText || '').toString().trim(), line 26
CustomerText(clipboardText) ==
    Trim(IF FalsyText(clipboardText) THEN <<>> ELSE clipboardText)

\* lines 51-94
PersonaAndGeneralRules ==
    << "persona: seller, Korean only, 150-220 characters",
       "[small-seller style guide]",
       "[no AI tells]",
       "[vary sentence patterns]",
       "review: quote the review",
       "[tone rules]",
       "tone === friendly",
       "tone === business",
       "tone === principle",
       "[scenario rules: general | claim | review]",
       "scenarioValue === general",
       "general: answer structure",
       "general: 1) thanks",
       "general: 2) answer",
       "general: 3) further inquiries + thanks" >>

\* lines 96-102
ClaimRules ==
    << "scenarioValue === claim",
       "claim: assume a complaint",
       "claim: answer structure (in exactly this order)",
       "claim: 1) apology/empathy",
       "claim: 2) remedy or procedure",
       "claim: 3) further inquiries + thanks",
       "claim: do not blame the customer" >>

\* lines 104-121
ReviewRules ==
    << "scenarioValue === review",
       "review: common rules",
       "review: positive review",
       "review: negative review",
       "review: no forced usage tips" >>

\* mutant of SystemPrompt: the remedy comes before the apology
SystemPromptRemedyFirst ==
    PersonaAndGeneralRules
        \o << ClaimRules[1], ClaimRules[2], ClaimRules[3], ClaimRules[5],
              ClaimRules[4], ClaimRules[6], ClaimRules[7] >>
        \o ReviewRules

\* lines 50-122
SystemPrompt == PersonaAndGeneralRules \o ClaimRules \o ReviewRules

PromptSection(label, value) == [label |-> label, value |-> value]

\* lines 125-135
UserPrompt(toneValue, scenarioValue, text) ==
    << PromptSection("[tone]: ", <<toneValue>>),
       PromptSection("[scenario]: ", <<scenarioValue>>),
       PromptSection("[customer text]:", text),
       PromptSection("write one answer for the [scenario] above", <<>>) >>

\* mutant of ComposeInput: the stored counts leak into the user prompt
ComposeInputCountsUsage(body, counter) ==
    [system |-> SystemPrompt,
     user |-> UserPrompt(ToneValue(body.tone), ScenarioValue(body.scenario),
                         CustomerText(body.clipboardText)
                             \o [i \in 1..GetOr(counter,
                                     UsageKey(body.clientId, todayStr), 0) |-> "."])]

\* the input of openai.responses.create, lines 140-149; counter is the Map
\* at the call
ComposeInput(body, counter) ==
    [system |-> SystemPrompt,
     user |-> UserPrompt(ToneValue(body.tone), ScenarioValue(body.scenario),
                         CustomerText(body.clipboardText))]

NoInput == [system |-> <<>>, user |-> <<>>]

----------------------------------------------------------------------------
(* State                                                                   *)
(*   usageCounter : the Map of line 13                                     *)
(*   clock        : the day new Date() is in (UTC)                         *)
(*   req[r]       : the request in slot r: where its handler is, the       *)
(*                  handler's local constants, the provider's result and   *)
(*                  the response sent                                      *)
(*   nReq         : requests received so far                               *)
(*   received[k]  : requests received so far whose usage key is k          *)
(*   admitted[k]  : those of them that passed the gate                     *)
(*   receivedOn[<<c, d>>], admittedOn[<<c, d>>] : the same two counts for  *)
(*                  the requests of client c (after the anon default)      *)
(*                  received on day d                                      *)
(*   allFailed    : every provider call that has ended so far ended in     *)
(*                  the catch block                                        *)
(*   probe        : the provider result under test in ExtractSpec          *)

IdleRequest ==
    [pc |-> "idle", isPro |-> FALSE, client |-> ANON, day |-> DayStr(1),
     key |-> UsageKey(AbsentText, DayStr(1)), used |-> 0,
     tone |-> Absent, scenario |-> Absent, clipboardText |-> AbsentText,
     input |-> NoInput, invoked |-> FALSE, providerFailed |-> FALSE,
     ai |-> NoResult, res |-> NoResponse]

\* the module has been loaded: the Map is empty and no request is in flight
InitHandler ==
    /\ usageCounter = <<>>
    /\ clock = 1
    /\ req = [r \in Requests |-> IdleRequest]
    /\ nReq = 0
    /\ received = [k \in AllKeys |-> 0]
    /\ admitted = [k \in AllKeys |-> 0]
    /\ receivedOn = [cd \in AllPairs |-> 0]
    /\ admittedOn = [cd \in AllPairs |-> 0]
    /\ allFailed = TRUE

Init == InitHandler /\ probe = NoResult

\* A response is observed in the state in which it is sent; the slot is
\* released (Release) before the system takes another step.
Delivered == \A r \in Requests : req[r].pc # "responded"

\* mutant of CanRun: a handler suspended at the provider call holds up the
\* handlers of the other requests
CanRunBlocking(r) ==
    /\ Delivered
    /\ \A o \in Requests \ {r} : req[o].pc # "awaiting"

\* the handler of request r can take its next step: await (line 138) yields
\* to the event loop, so no other request's handler holds it up
CanRun(r) == Delivered

\* mutants of Admit: the count is written back without the increment; the
\* write drops the other keys' entries
AdmitNoIncrement(counter, key, used) == MapSet(counter, key, used)

AdmitForgetsOthers(counter, key, used) == [k \in {key} |-> used + 1]

\* usageCounter.set(key, used + 1), line 47
Admit(counter, key, used) == MapSet(counter, key, used + 1)

\* lines 21-150: from the start of the handler to the await.  cap bounds
\* the number of requests of the run.
Receive(r, body, cap) ==
    /\ CanRun(r)
    /\ req[r].pc = "idle"
    /\ nReq < cap
    /\ LET isPro == IsProKey(body.licenseKey)
           limit == LimitOf(isPro)
           client == ClientOf(body.clientId)
           day == todayStr
           key == UsageKey(body.clientId, day)
           used == GetOr(usageCounter, key, 0)
           q == [IdleRequest EXCEPT !.isPro = isPro, !.client = client,
                                    !.day = day, !.key = key, !.used = used,
                                    !.tone = body.tone,
                                    !.scenario = body.scenario,
                                    !.clipboardText = body.clipboardText]
       IN /\ IF OverLimit(isPro, used, limit)
             THEN /\ req' = [req EXCEPT ![r] =
                        [q EXCEPT !.pc = "responded",
                                  !.res = RejectedResponse(used, limit, isPro)]]
                  /\ UNCHANGED <<usageCounter, admitted, admittedOn>>
             ELSE /\ usageCounter' = Admit(usageCounter, key, used)
                  /\ req' = [req EXCEPT ![r] =
                        [q EXCEPT !.pc = "awaiting", !.invoked = TRUE,
                                  !.input = ComposeInput(body, usageCounter')]]
                  /\ admitted' = [admitted EXCEPT ![key] = @ + 1]
                  /\ admittedOn' = [admittedOn EXCEPT ![<<client, day>>] = @ + 1]
          /\ received' = [received EXCEPT ![key] = @ + 1]
          /\ receivedOn' = [receivedOn EXCEPT ![<<client, day>>] = @ + 1]
    /\ nReq' = nReq + 1
    /\ UNCHANGED <<clock, allFailed, probe>>

\* lines 152-187: the provider call returned ai
ProviderResolve(r, ai) ==
    /\ CanRun(r)
    /\ req[r].pc = "awaiting"
    /\ LET q == req[r]
           limit == LimitOf(q.isPro)
           parsed == ParseOutput(ai)
           res == IF parsed.threw THEN FallbackResponse
                  ELSE IF parsed.text = <<>>
                  THEN EmptyResponse(usageCounter, q.key, q.used, limit, q.isPro)
                  ELSE SuccessResponse(parsed.text, usageCounter, q.key, q.used,
                                       limit, q.isPro)
       IN /\ req' = [req EXCEPT ![r].pc = "responded", ![r].ai = ai, ![r].res = res]
          /\ allFailed' = (allFailed /\ parsed.threw)
    /\ UNCHANGED <<usageCounter, clock, nReq, received, admitted, receivedOn,
                   admittedOn, probe>>

\* mutant of ProviderReject: the failure is not caught and the handler ends
\* without a response
ProviderRejectUnhandled(r) ==
    /\ CanRun(r)
    /\ req[r].pc = "awaiting"
    /\ req' = [req EXCEPT ![r].pc = "failed", ![r].providerFailed = TRUE]
    /\ UNCHANGED <<usageCounter, clock, nReq, received, admitted, receivedOn,
                   admittedOn, allFailed, probe>>

\* lines 188-200: the provider call failed (transport error, timeout, ...)
ProviderReject(r) ==
    /\ CanRun(r)
    /\ req[r].pc = "awaiting"
    /\ req' = [req EXCEPT ![r].pc = "responded", ![r].providerFailed = TRUE,
                           ![r].res = FallbackResponse]
    /\ UNCHANGED <<usageCounter, clock, nReq, received, admitted, receivedOn,
                   admittedOn, allFailed, probe>>

\* the response has been sent: the handler's locals are gone
Release(r) ==
    /\ req[r].pc = "responded"
    /\ req' = [req EXCEPT ![r] = IdleRequest]
    /\ UNCHANGED <<usageCounter, clock, nReq, received, admitted, receivedOn,
                   admittedOn, allFailed, probe>>

\* UTC midnight passes: todayStr() returns the next day from now on
Tick ==
    /\ Delivered
    /\ clock < MaxDay
    /\ clock' = clock + 1
    /\ UNCHANGED <<usageCounter, req, nReq, received, admitted, receivedOn,
                   admittedOn, allFailed, probe>>

\* no handler is suspended at the provider call
Quiet == \A r \in Requests : req[r].pc # "awaiting"

----------------------------------------------------------------------------
(* Specifications *)

\* requests handled concurrently
Next ==
    \/ \E r \in Requests, body \in Bodies : Receive(r, body, MaxConcurrentRequests)
    \/ \E r \in Requests, ai \in SampleResults : ProviderResolve(r, ai)
    \/ \E r \in Requests : ProviderReject(r)
    \/ \E r \in Requests : Release(r)
    \/ Tick

Spec == Init /\ [][Next]_vars

\* requests handled one after another
SeqReceive(r, body) == Quiet /\ Receive(r, body, MaxRequests)

SeqNext ==
    \/ \E r \in Requests, body \in Bodies : SeqReceive(r, body)
    \/ \E r \in Requests, ai \in SampleResults : ProviderResolve(r, ai)
    \/ \E r \in Requests : ProviderReject(r)
    \/ \E r \in Requests : Release(r)
    \/ Tick

SeqSpec == Init /\ [][SeqNext]_vars

\* free-tier requests only, handled concurrently
FreeBodies == {b \in Bodies : ~IsProKey(b.licenseKey)}

FreeReceive(r, body) == Receive(r, body, MaxConcurrentRequests)

FreeNext ==
    \/ \E r \in Requests, body \in FreeBodies : FreeReceive(r, body)
    \/ \E r \in Requests, ai \in SampleResults : ProviderResolve(r, ai)
    \/ \E r \in Requests : ProviderReject(r)
    \/ \E r \in Requests : Release(r)
    \/ Tick

FreeSpec == Init /\ [][FreeNext]_vars

\* free-tier requests only, handled one after another
FreeSeqReceive(r, body) == Quiet /\ Receive(r, body, MaxRequests)

FreeSeqNext ==
    \/ \E r \in Requests, body \in FreeBodies : FreeSeqReceive(r, body)
    \/ \E r \in Requests, ai \in SampleResults : ProviderResolve(r, ai)
    \/ \E r \in Requests : ProviderReject(r)
    \/ \E r \in Requests : Release(r)
    \/ Tick

FreeSeqSpec == Init /\ [][FreeSeqNext]_vars

\* one client's day of pro requests, handled one after another
ProBody ==
    [licenseKey |-> PRO_KEY, clientId |-> CLIENT_C1, tone |-> "friendly",
     scenario |-> "general", clipboardText |-> <<"h", "i">>]

ProReceive(r) == Quiet /\ Receive(r, ProBody, MaxProRequests)

ProNext ==
    \/ \E r \in Requests : ProReceive(r)
    \/ \E r \in Requests, ai \in SampleResults : ProviderResolve(r, ai)
    \/ \E r \in Requests : ProviderReject(r)
    \/ \E r \in Requests : Release(r)

ProSpec == Init /\ [][ProNext]_vars

\* the parsing of every well-formed provider result: one request, whose
\* provider call returns the result under test
ExtractBody ==
    [licenseKey |-> "", clientId |-> CLIENT_C1, tone |-> "friendly",
     scenario |-> "general", clipboardText |-> <<"h", "i">>]

ExtractInit == InitHandler /\ probe \in WellFormedResults

ProbeReceive == Receive("r1", ExtractBody, 1)

ProbeResolve == ProviderResolve("r1", probe)

ExtractNext == ProbeReceive \/ ProbeResolve

ExtractSpec == ExtractInit /\ [][ExtractNext]_vars

\* free-tier requests without a clientId of their own (none, or 'anon'),
\* handled concurrently over the days of the run
DayBodies == {b \in FreeBodies : ClientOf(b.clientId) = ANON}

DayReceive(r, body) == Receive(r, body, MaxRequests)

DayNext ==
    \/ \E r \in Requests, body \in DayBodies : DayReceive(r, body)
    \/ \E r \in Requests, ai \in SampleResults : ProviderResolve(r, ai)
    \/ \E r \in Requests : ProviderReject(r)
    \/ \E r \in Requests : Release(r)
    \/ Tick

DaySpec == Init /\ [][DayNext]_vars

\* one day's requests without a clientId, free and pro, handled
\* concurrently; every provider call returns or fails in the end, and every
\* response sent leaves the handler
FairBodies == {b \in Bodies : b.clientId = AbsentText}

FairReceive(r, body) == Receive(r, body, MaxRequests)

\* the provider call of request r ends
Finish(r) ==
    \/ \E ai \in SampleResults : ProviderResolve(r, ai)
    \/ ProviderReject(r)

FairNext ==
    \/ \E r \in Requests, body \in FairBodies : FairReceive(r, body)
    \/ \E r \in Requests : Finish(r)
    \/ \E r \in Requests : Release(r)

FairSpec ==
    /\ Init
    /\ [][FairNext]_vars
    /\ \A r \in Requests : WF_vars(Finish(r)) /\ WF_vars(Release(r))

\* a few requests of any client, free and pro, handled concurrently on one
\* day
OverlapReceive(r, body) == Receive(r, body, MaxOverlapRequests)

OverlapNext ==
    \/ \E r \in Requests, body \in Bodies : OverlapReceive(r, body)
    \/ \E r \in Requests, ai \in SampleResults : ProviderResolve(r, ai)
    \/ \E r \in Requests : ProviderReject(r)
    \/ \E r \in Requests : Release(r)

OverlapSpec == Init /\ [][OverlapNext]_vars

\* one free client's requests with every tone, scenario and text, handled
\* concurrently
ComposeReceive(r, body) == Receive(r, body, MaxComposeRequests)

ComposeNext ==
    \/ \E r \in Requests, body \in ComposeBodies : ComposeReceive(r, body)
    \/ \E r \in Requests, ai \in SampleResults : ProviderResolve(r, ai)
    \/ \E r \in Requests : ProviderReject(r)
    \/ \E r \in Requests : Release(r)

ComposeSpec == Init /\ [][ComposeNext]_vars

----------------------------------------------------------------------------
(* Properties *)

Min(S) == CHOOSE x \in S : \A y \in S : x <= y
Max(S) == CHOOSE x \in S : \A y \in S : x >= y

Responded(r) == req[r].pc = "responded"

\* the stored count of key k; 0 when there is no entry
Count(k) == IF k \in DOMAIN usageCounter THEN usageCounter[k] ELSE 0

\* the generated text of a provider result: the text of its output_text
\* parts, segment by segment and part by part
RECURSIVE Flatten(_)
Flatten(ss) == IF ss = <<>> THEN <<>> ELSE Head(ss) \o Flatten(Tail(ss))

TextOfPart(c) == IF c.type = "output_text" THEN c.text ELSE <<>>

TextOfItem(item) ==
    Flatten([i \in 1..Len(item.content) |-> TextOfPart(item.content[i])])

TextOf(ai) == Flatten([i \in 1..Len(ai.output) |-> TextOfItem(ai.output[i])])

\* s without its leading and trailing whitespace
Trimmed(s) ==
    LET nonSpace == {i \in 1..Len(s) : s[i] # " "}
    IN IF nonSpace = {} THEN <<>> ELSE SubSeq(s, Min(nonSpace), Max(nonSpace))

\* C1: free-tier requests handled one after another on one day, from an
\* empty counter: the first 5 requests of a key are admitted (the count is
\* incremented and the provider invoked) and the 6th and every later one is
\* rejected with ok=false, todayUsage=5, todayLimit=5, isPro=false, whatever
\* the provider did on the admitted ones.  (While a request is in its slot,
\* received[key] is its position among the requests of its key.)
C1_FirstFiveAdmitted ==
    \A r \in Requests :
        req[r].pc # "idle" =>
            LET q == req[r]
                n == received[q.key]
            IN /\ n <= 5 => /\ q.invoked
                            /\ q.res.message # MSG_QUOTA
                            /\ Count(q.key) = n
               /\ n >= 6 => /\ Responded(r)
                            /\ ~q.invoked
                            /\ q.res.ok = FALSE
                            /\ q.res.todayUsage = 5
                            /\ q.res.todayLimit = 5
                            /\ q.res.isPro = FALSE
                            /\ q.res.message = MSG_QUOTA
                            /\ Count(q.key) = 5

\* the 7th request of a key is rejected after five provider failures
C1_Witness ==
    \E r \in Requests :
        /\ Responded(r)
        /\ received[req[r].key] = 7
        /\ req[r].res.message = MSG_QUOTA
        /\ allFailed

\* C2: a pro request is never rejected by quota, whatever count is stored;
\* the n-th of n pro requests handled one after another, when the provider
\* returns text, is answered ok=true, isPro=true, todayLimit=999,
\* todayUsage=n.
C2_GoodResult == Result(<<Item(<<Part("output_text", <<" ", "a", " ">>)>>)>>)

C2_ProNeverRejected ==
    \A r \in Requests :
        (req[r].pc # "idle" /\ req[r].isPro) =>
            /\ req[r].invoked
            /\ req[r].res.message # MSG_QUOTA
            /\ (Responded(r) /\ req[r].ai = C2_GoodResult) =>
                   /\ req[r].res.ok = TRUE
                   /\ req[r].res.isPro = TRUE
                   /\ req[r].res.todayLimit = 999
                   /\ req[r].res.todayUsage = received[req[r].key]

\* the 1000th pro request finds a count of 999 and is served
C2_Witness ==
    \E r \in Requests :
        /\ Responded(r)
        /\ req[r].used = 999
        /\ req[r].res.ok = TRUE
        /\ req[r].res.todayUsage = 1000

\* C3: under every interleaving of free-tier requests at most 5 requests of
\* a key are admitted, and no two requests in flight were admitted on the
\* same observed count.
C3_AtMostFiveAdmitted ==
    /\ \A k \in AllKeys : admitted[k] <= 5
    /\ \A r1, r2 \in Requests :
           (r1 # r2 /\ req[r1].invoked /\ req[r2].invoked
                    /\ req[r1].key = req[r2].key)
               => req[r1].used # req[r2].used

\* a request is rejected while the 5th admitted one is still waiting for
\* the provider
C3_Witness ==
    \E r1, r2 \in Requests :
        /\ req[r1].pc = "awaiting" /\ req[r1].used = 4
        /\ Responded(r2) /\ req[r2].res.message = MSG_QUOTA
        /\ req[r1].key = req[r2].key
        /\ admitted[req[r1].key] = 5

\* C4: a step that receives a free-tier request whose key has a stored
\* count of 5 or more answers at once, does not invoke the provider and
\* leaves the usage counter as it was.
C4_RejectionStep(r) ==
    /\ req[r].pc = "idle" /\ req'[r].pc # "idle"
    /\ ~req'[r].isPro
    /\ Count(req'[r].key) >= 5

C4_RejectionChangesNothing ==
    [][\A r \in Requests :
          C4_RejectionStep(r) =>
              /\ req'[r].pc = "responded"
              /\ ~req'[r].invoked
              /\ req'[r].res.message = MSG_QUOTA
              /\ usageCounter' = usageCounter]_vars

\* a rejected request, its key's count still 5
C4_Witness ==
    \E r \in Requests :
        /\ Responded(r) /\ req[r].res.message = MSG_QUOTA
        /\ ~req[r].invoked
        /\ Count(req[r].key) = 5
        /\ admitted[req[r].key] = 5

\* C5: the step that admits a request sets its key's count to one more
\* than the count it read, in the same step in which the provider is
\* invoked; no step lowers a count, and as long as the request is in
\* flight or answered (success, empty output or fault) the count is at
\* least the value set at admission.
C5_AdmissionStep(r) ==
    req[r].pc = "idle" /\ req'[r].pc = "awaiting"

C5_QuotaNeverRefunded ==
    [][/\ \A r \in Requests :
            C5_AdmissionStep(r) =>
                /\ req'[r].invoked
                /\ req'[r].used = Count(req'[r].key)
                /\ usageCounter'[req'[r].key] = Count(req'[r].key) + 1
       /\ \A k \in DOMAIN usageCounter :
            k \in DOMAIN usageCounter' /\ usageCounter'[k] >= usageCounter[k]
       /\ \A r \in Requests :
            req'[r].invoked =>
                /\ req'[r].key \in DOMAIN usageCounter'
                /\ usageCounter'[req'[r].key] >= req'[r].used + 1]_vars

\* every provider call so far failed, five of them for one key, and the
\* next free-tier request of that key is rejected
C5_Witness ==
    \E r \in Requests :
        /\ allFailed
        /\ \A r2 \in Requests : r2 # r => req[r2].pc = "idle"
        /\ Responded(r) /\ req[r].res.message = MSG_QUOTA
        /\ admitted[req[r].key] = 5
        /\ received[req[r].key] = 6

\* C6: a request whose provider call failed, or whose provider result could
\* not be parsed, is answered with the fixed fallback: ok=false, reply="",
\* todayUsage=0, todayLimit=5, isPro=false and the generic error message,
\* whatever the caller's tier and count.
C6_Malformed(ai) ==
    \E i \in 1..Len(ai.output) :
        \E j \in 1..Len(ai.output[i].content) : ai.output[i].content[j].isNull

C6_Faulted(r) ==
    Responded(r) /\ (req[r].providerFailed \/ C6_Malformed(req[r].ai))

C6_FaultYieldsFallback ==
    \A r \in Requests :
        C6_Faulted(r) =>
            /\ req[r].res.ok = FALSE
            /\ req[r].res.reply = <<>>
            /\ req[r].res.todayUsage = 0
            /\ req[r].res.todayLimit = 5
            /\ req[r].res.isPro = FALSE
            /\ req[r].res.message = MSG_ERROR

\* a pro caller with a count of 3 gets the fallback
C6_Witness ==
    \E r \in Requests :
        /\ C6_Faulted(r)
        /\ req[r].isPro
        /\ Count(req[r].key) = 3
        /\ req[r].res.isPro = FALSE

\* C7: in every response, ok=false implies an empty reply, and ok=true
\* implies that the reply is the non-empty trimmed generated text of the
\* provider's result.
C7_ReplyMatchesOk ==
    \A r \in Requests :
        Responded(r) =>
            /\ ~req[r].res.ok => req[r].res.reply = <<>>
            /\ req[r].res.ok => /\ req[r].res.reply # <<>>
                                /\ req[r].res.reply = Trimmed(TextOf(req[r].ai))

\* a success whose generated text had whitespace around it
C7_Witness ==
    \E r \in Requests :
        /\ Responded(r)
        /\ req[r].res.ok
        /\ req[r].res.reply = <<"a">>
        /\ TextOf(req[r].ai) = <<" ", "a", " ">>

\* C8: every response carries HTTP status 200.
C8_AlwaysStatus200 ==
    \A r \in Requests : Responded(r) => req[r].res.status = 200

\* the internal-failure response, sent with status 200
C8_Witness ==
    \E r \in Requests :
        /\ Responded(r)
        /\ req[r].res.message = MSG_ERROR
        /\ req[r].res.status = 200

\* C9: the todayUsage of an admitted request's success or empty-output
\* response is the count produced by its own increment, used + 1, under
\* every interleaving.
C9_ReportsOwnIncrement ==
    \A r \in Requests :
        (Responded(r) /\ req[r].res.message \in {MSG_RETRY, MSG_DONE, MSG_DONE_PRO})
            => req[r].res.todayUsage = req[r].used + 1

\* C10: for every well-formed provider result the reply is the trimmed
\* concatenation, in segment order then part order, of the text of the
\* output_text parts; when that is empty the response is the empty-output
\* one (ok=false, retry message, quota consumed), never the internal
\* failure.
C10_ExtractsGeneratedText ==
    \A r \in Requests :
        Responded(r) =>
            LET expected == Trimmed(TextOf(probe))
            IN /\ req[r].ai = probe
               /\ req[r].res.message # MSG_ERROR
               /\ expected # <<>> => /\ req[r].res.ok
                                     /\ req[r].res.reply = expected
               /\ expected = <<>> => /\ ~req[r].res.ok
                                     /\ req[r].res.reply = <<>>
                                     /\ req[r].res.message = MSG_RETRY
                                     /\ req[r].res.todayUsage = 1
                                     /\ Count(req[r].key) = 1

\* text from two segments, a non-text part skipped, inner whitespace kept
C10_Witness ==
    \E r \in Requests :
        /\ Responded(r)
        /\ Len(probe.output) = 2
        /\ Len(probe.output[1].content) = 2
        /\ probe.output[1].content[1].type = "reasoning"
        /\ req[r].res.ok
        /\ req[r].res.reply = <<"a", " ", "b">>

\* the provider has been called for the request in slot r
Called(r) == req[r].invoked

Tones == {"friendly", "business", "principle"}

Scenarios == {"general", "claim", "review"}

\* the tone and the scenario the user prompt of request r names
PromptTone(r) == req[r].input.user[1].value[1]

PromptScenario(r) == req[r].input.user[2].value[1]

\* C11: for every request the tone the prompt is built with is friendly,
\* business or principle and the scenario general, claim or review; an absent
\* or unrecognized tone is treated as friendly and an absent or unrecognized
\* scenario as general.
C11_ToneAndScenarioNormalised ==
    \A r \in Requests :
        Called(r) =>
            /\ PromptTone(r) \in Tones
            /\ PromptScenario(r) \in Scenarios
            /\ req[r].tone \notin Tones => PromptTone(r) = "friendly"
            /\ req[r].scenario \notin Scenarios => PromptScenario(r) = "general"

\* the position of line x in prompt p; 0 when p has no such line
IndexOf(p, x) ==
    IF \E i \in 1..Len(p) : p[i] = x
    THEN Min({i \in 1..Len(p) : p[i] = x})
    ELSE 0

\* the text the request in slot r was sent with: nothing when the body has
\* none
SentText(r) ==
    IF req[r].clipboardText = AbsentText THEN <<>> ELSE req[r].clipboardText

\* C12: the prompt is a function of (tone, scenario, customerText) alone.
\* Two requests with the same three inputs get the same system and user
\* prompt, whatever the counter held when each was composed; the user
\* prompt has the sections tone, scenario, customer text, instructions in
\* this order and restates the tone and the scenario (after the defaults)
\* and the trimmed customer text verbatim; the system prompt is the same
\* for every request.
C12_PromptIsFunctionOfInputs ==
    \A r \in Requests :
        Called(r) =>
            LET q == req[r]
                user == q.input.user
            IN /\ \A o \in Requests :
                    /\ Called(o)
                    /\ req[o].tone = q.tone
                    /\ req[o].scenario = q.scenario
                    /\ req[o].clipboardText = q.clipboardText
                    => req[o].input = q.input
               /\ \A o \in Requests :
                    Called(o) => req[o].input.system = q.input.system
               /\ Len(user) = 4
               /\ user[1].label = "[tone]: "
               /\ user[2].label = "[scenario]: "
               /\ user[3].label = "[customer text]:"
               /\ user[1].value =
                    <<IF q.tone \in {Absent, ""} THEN "friendly" ELSE q.tone>>
               /\ user[2].value =
                    <<IF q.scenario \in {Absent, ""} THEN "general" ELSE q.scenario>>
               /\ user[3].value = Trimmed(SentText(r))
               /\ user[4].value = <<>>

\* two requests with the same inputs are in flight, composed at different
\* counts, and the text had whitespace to trim
C12_Witness ==
    /\ req["r1"].pc = "awaiting"
    /\ req["r2"].pc = "awaiting"
    /\ req["r1"].used # req["r2"].used
    /\ req["r1"].tone = "business" /\ req["r2"].tone = "business"
    /\ req["r1"].scenario = "review" /\ req["r2"].scenario = "review"
    /\ req["r1"].clipboardText = <<" ", "h", "i", " ">>
    /\ req["r2"].clipboardText = <<" ", "h", "i", " ">>
    /\ req["r1"].input.user[3].value = <<"h", "i">>

\* C13: in the system prompt every request is composed with, the claim
\* scenario's block marks its answer structure as mandatory in order and
\* then lists apology/empathy, remedy or procedure, and further inquiries
\* plus thanks, in this order, before the next scenario's block begins.
C13_ClaimStructureInOrder ==
    \A r \in Requests :
        Called(r) =>
            LET sys == req[r].input.system
                block == IndexOf(sys, "scenarioValue === claim")
                order == IndexOf(sys, "claim: answer structure (in exactly this order)")
                apology == IndexOf(sys, "claim: 1) apology/empathy")
                remedy == IndexOf(sys, "claim: 2) remedy or procedure")
                closing == IndexOf(sys, "claim: 3) further inquiries + thanks")
                review == IndexOf(sys, "scenarioValue === review")
                general == IndexOf(sys, "scenarioValue === general")
            IN /\ 0 < general
               /\ general < block
               /\ block < order
               /\ order < apology
               /\ apology < remedy
               /\ remedy < closing
               /\ closing < review

\* a claim-scenario request is at the provider
C13_Witness ==
    \E r \in Requests :
        /\ req[r].pc = "awaiting"
        /\ req[r].scenario = "claim"
        /\ PromptScenario(r) = "claim"
        /\ Len(req[r].input.system) > 0

\* the request in slot r has been rejected by the quota gate
Rejected(r) == Responded(r) /\ req[r].res.message = MSG_QUOTA

\* C14 as stated: every quota rejection reports todayUsage=5 and
\* todayLimit=5, whatever requests of the key came before, pro ones included.
C14_RejectionReportsFive ==
    \A r \in Requests :
        Rejected(r) => /\ req[r].res.todayUsage = 5
                       /\ req[r].res.todayLimit = 5

\* C14 amended: every quota rejection reports todayLimit=5 and, as
\* todayUsage, the number of requests admitted so far for its client and
\* day, pro and free ones alike; that number is the key's stored count and is
\* at least 5.
C14_RejectionReportsStoredCount ==
    \A r \in Requests :
        Rejected(r) =>
            LET q == req[r]
            IN /\ q.res.todayLimit = 5
               /\ q.res.todayUsage = admittedOn[<<q.client, q.day>>]
               /\ q.res.todayUsage = Count(q.key)
               /\ q.res.todayUsage >= 5
               /\ ~q.res.isPro
               /\ ~q.res.ok

\* a free request is rejected after six pro requests of its client were
\* admitted the same day: it reports todayUsage=6
C14_Witness ==
    \E r \in Requests :
        /\ Rejected(r)
        /\ received[req[r].key] = 7
        /\ req[r].res.todayUsage = 6
        /\ req[r].res.todayLimit = 5

\* the entries of the Map are positive and count the admitted requests of
\* their client and day; a client and day without entry has none admitted
CountsAdmitted(counter, adm) ==
    /\ DOMAIN counter \subseteq AllKeys
    /\ \A cd \in AllPairs :
        LET k == UsageKey(cd[1], cd[2])
        IN IF k \in DOMAIN counter
           THEN /\ counter[k] \in Nat \ {0}
                /\ counter[k] = adm[cd]
           ELSE adm[cd] = 0

\* C15: in every reachable state each usageCounter entry is a positive
\* integer, the number of requests admitted so far for its client and day;
\* no step decreases or removes an entry.
C15_EntriesCountAdmitted ==
    /\ CountsAdmitted(usageCounter, admittedOn)
    /\ [][/\ CountsAdmitted(usageCounter', admittedOn')
          /\ \A k \in DOMAIN usageCounter :
                /\ k \in DOMAIN usageCounter'
                /\ usageCounter'[k] >= usageCounter[k]]_vars

\* two keys have entries, at 4 and at 2, and the request just answered was
\* admitted and failed at the provider
C15_Witness ==
    /\ \E k \in DOMAIN usageCounter : usageCounter[k] = 4
    /\ \E k \in DOMAIN usageCounter : usageCounter[k] = 2
    /\ \E r \in Requests :
        /\ Responded(r)
        /\ req[r].providerFailed
        /\ usageCounter[req[r].key] = 2

\* the request in slot r has been answered with the usage of its key
ReportsUsage(r) ==
    Responded(r) /\ req[r].res.message \in {MSG_DONE, MSG_DONE_PRO, MSG_RETRY}

CountIn(counter, k) == IF k \in DOMAIN counter THEN counter[k] ELSE 0

\* C17: requests of one client never affect another client's.  A step that
\* receives a request leaves the count of every other client-and-day
\* unchanged; whether the request is admitted and the usage it observes
\* depend on the requests admitted before for its own client and day only,
\* and so does the usage it reports when it is rejected or answered: they
\* are what they are in the run without the other clients' requests.
C17_ClientsAreIndependent ==
    [][\A r \in Requests :
        LET q == req'[r]
            cd == <<q.client, q.day>>
        IN /\ req[r].pc = "idle" /\ q.pc # "idle" =>
                /\ \A other \in AllPairs \ {cd} :
                    /\ CountIn(usageCounter', UsageKey(other[1], other[2]))
                         = CountIn(usageCounter, UsageKey(other[1], other[2]))
                    /\ admittedOn'[other] = admittedOn[other]
                /\ q.used = admittedOn[cd]
                /\ q.invoked <=> (q.isPro \/ admittedOn[cd] < 5)
                /\ ~q.invoked => q.res.todayUsage = admittedOn[cd]
           /\ /\ req[r].pc = "awaiting"
              /\ q.pc = "responded"
              /\ q.res.message # MSG_ERROR
              => /\ q.res.todayUsage = admittedOn[cd]
                 /\ usageCounter' = usageCounter]_vars

\* client c1 has used up its day and the first request without a clientId is
\* admitted and answered with todayUsage=1
C17_Witness ==
    /\ Count(UsageKey(CLIENT_C1, DayStr(1))) = 5
    /\ \E r \in Requests :
        /\ Responded(r)
        /\ req[r].client = ANON
        /\ req[r].day = DayStr(1)
        /\ req[r].res.ok
        /\ req[r].res.todayUsage = 1

\* the envelopes of an admitted request: success, empty output, internal
\* failure
AdmittedMessages == {MSG_DONE, MSG_DONE_PRO, MSG_RETRY, MSG_ERROR}

\* C18: every request receives exactly one response.  A rejected request is
\* answered in the step that receives it, without a provider call; an
\* admitted request, given that its provider call returns or fails in the
\* end, is answered in the end, with the success, the empty-output or the
\* internal-failure envelope, in the step in which the call ends; a request
\* that has been answered is not answered again, and no request ends
\* without a response.
C18_ExactlyOneResponse ==
    /\ [][\A r \in Requests :
            LET q == req[r]
                n == req'[r]
            IN /\ q.pc = "idle" /\ n.pc # "idle" =>
                    \/ n.pc = "awaiting" /\ n.invoked /\ n.res = NoResponse
                    \/ Rejected(r)' /\ ~n.invoked
               /\ q.pc = "awaiting" /\ n # q =>
                    /\ n.pc = "responded"
                    /\ n.res.message \in AdmittedMessages
                    /\ n.res.status = HTTP_OK
               /\ q.pc = "responded" /\ n # q => n.pc = "idle"
               /\ n.pc \in {"idle", "awaiting", "responded"}]_vars
    /\ \A r \in Requests :
        req[r].pc = "awaiting" ~>
            Responded(r) /\ req[r].res.message \in AdmittedMessages

\* the 7th request of the run is answered with the internal-failure
\* envelope after its provider call failed, a free one having been rejected
C18_Witness ==
    /\ nReq = 7
    /\ Count(UsageKey(AbsentText, DayStr(1))) = 6
    /\ \E r \in Requests :
        /\ Responded(r)
        /\ req[r].providerFailed
        /\ req[r].isPro
        /\ req[r].res = FallbackResponse

\* C19: a pending provider call does not block other requests.  While a
\* request is suspended at the provider, a request arriving in the other
\* slot, for any key, can be gated (while the run has requests left), and
\* another suspended request can have its provider call return or fail and
\* be answered.
C19_PendingCallDoesNotBlock ==
    \A r1 \in Requests : \A r2 \in Requests \ {r1} :
        req[r1].pc = "awaiting" /\ Delivered =>
            /\ req[r2].pc = "idle" /\ nReq < MaxOverlapRequests =>
                \A body \in Bodies : ENABLED OverlapReceive(r2, body)
            /\ req[r2].pc = "awaiting" =>
                /\ \A ai \in SampleResults : ENABLED ProviderResolve(r2, ai)
                /\ ENABLED ProviderReject(r2)

\* r2 was admitted under r1's key after r1, and has its answer while r1 is
\* still at the provider
C19_Witness ==
    /\ req["r1"].pc = "awaiting"
    /\ Responded("r2")
    /\ req["r2"].res.ok
    /\ req["r2"].key = req["r1"].key
    /\ req["r2"].used = req["r1"].used + 1

============================================================================
